---- MODULE Spec2Model ----
(***************************************************************************)
(* Model of streamlit_app.py (Personal Finance Tracker).                   *)
(*                                                                         *)
(* The session state holds the transaction table `df` and the two category *)
(* lists.  Every user interaction (add category, import CSV, add           *)
(* transaction, grid edit, delete) is one script run and is modelled as    *)
(* one action.  Strings that the code trims, lower-cases or tests for a    *)
(* prefix are sequences of one-character strings; amounts are integers     *)
(* (currency units); dates are day numbers.                                *)
(***************************************************************************)
EXTENDS Integers, Sequences, FiniteSets, TLC

VARIABLES
    df,                  \* st.session_state.df: the rows, each with its index label
    expense_categories,  \* st.session_state.expense_categories
    income_categories,   \* st.session_state.income_categories
    msg                  \* the message the last script run displayed

vars == <<df, expense_categories, income_categories, msg>>

-----------------------------------------------------------------------------
(* Bounds of the model *)

\* Largest number of rows the ledger is allowed to grow to.
MaxRows == 2

-----------------------------------------------------------------------------
(* Strings *)

Whitespace == {" ", "\t"}

UpperLetters ==
    <<"A", "B", "C", "D", "E", "F", "G", "H", "I", "J", "K", "L", "M",
      "N", "O", "P", "Q", "R", "S", "T", "U", "V", "W", "X", "Y", "Z">>

LowerLetters ==
    <<"a", "b", "c", "d", "e", "f", "g", "h", "i", "j", "k", "l", "m",
      "n", "o", "p", "q", "r", "s", "t", "u", "v", "w", "x", "y", "z">>

\* str.lower() on one character
LowerChar(c) ==
    IF \E i \in 1..26 : UpperLetters[i] = c
    THEN LowerLetters[CHOOSE i \in 1..26 : UpperLetters[i] = c]
    ELSE c

\* The sequence with the elements of f, a function on 1..n
List(f) == f \o <<>>

\* str.lower()
Lower(s) == List([i \in 1..Len(s) |-> LowerChar(s[i])])

RECURSIVE LStrip(_)
LStrip(s) ==
    IF s # <<>> /\ Head(s) \in Whitespace THEN LStrip(Tail(s)) ELSE s

RECURSIVE RStrip(_)
RStrip(s) ==
    IF s # <<>> /\ s[Len(s)] \in Whitespace
    THEN RStrip(SubSeq(s, 1, Len(s) - 1))
    ELSE s

\* str.strip()
Strip(s) == RStrip(LStrip(s))

\* t.startswith("i")
StartsWithI(t) == Len(t) >= 1 /\ t[1] = "i"

\* x in list
InList(x, list) == \E i \in 1..Len(list) : list[i] = x

-----------------------------------------------------------------------------
(* Default categories *)

DEFAULT_EXPENSE_CATEGORIES ==
    << <<"E", "l", "e", "c", "t", "r", "i", "c", " ", "B", "i", "l", "l", "s">>,
       <<"G", "r", "o", "c", "e", "r", "i", "e", "s">>,
       <<"R", "e", "n", "t", " ", "/", " ", "M", "o", "r", "t", "g", "a", "g", "e">>,
       <<"T", "r", "a", "n", "s", "p", "o", "r", "t">>,
       <<"E", "n", "t", "e", "r", "t", "a", "i", "n", "m", "e", "n", "t">>,
       <<"D", "i", "n", "i", "n", "g", " ", "O", "u", "t">>,
       <<"S", "u", "b", "s", "c", "r", "i", "p", "t", "i", "o", "n", "s">>,
       <<"H", "e", "a", "l", "t", "h", "c", "a", "r", "e">>,
       <<"S", "h", "o", "p", "p", "i", "n", "g">>,
       <<"U", "t", "i", "l", "i", "t", "i", "e", "s">> >>

DEFAULT_INCOME_CATEGORIES ==
    << <<"S", "a", "l", "a", "r", "y">>,
       <<"O", "t", "h", "e", "r">> >>

\* expense_categories + income_categories, the options of the grid's Category column
all_categories == expense_categories \o income_categories

-----------------------------------------------------------------------------
(* Messages *)

\* st.success, st.warning and st.error, by the text they show
NoMsg == [level |-> "none", text |-> ""]
Success(t) == [level |-> "success", text |-> t]
Warning(t) == [level |-> "warning", text |-> t]
Error(t) == [level |-> "error", text |-> t]

-----------------------------------------------------------------------------
(* DataFrame operations *)

\* The five columns of a row, without its index label
Data(r) ==
    [Date |-> r.Date, Category |-> r.Category, Description |-> r.Description,
     Amount |-> r.Amount, Type |-> r.Type]

Rows(d) == List([i \in 1..Len(d) |-> Data(d[i])])

\* DataFrame.reset_index(drop=True): labels become 0..n-1
reset_index(d) == List([i \in 1..Len(d) |-> [d[i] EXCEPT !.index = i - 1]])

\* pd.concat([a, b], axis=0, ignore_index=True)
concat_ignore_index(a, b) == reset_index(a \o b)

\* DataFrame.drop(label): every row carrying the label goes
drop(d, label) == SelectSeq(d, LAMBDA r : r.index # label)

-----------------------------------------------------------------------------
(* Initial state: empty table, default categories *)

Init ==
    /\ df = <<>>
    /\ expense_categories = DEFAULT_EXPENSE_CATEGORIES
    /\ income_categories = DEFAULT_INCOME_CATEGORIES
    /\ msg = NoMsg

-----------------------------------------------------------------------------
(* Manage categories *)

\* The name taken as typed, without strip()
CategoryNameUntrimmed(new_cat) == new_cat

\* name = new_cat.strip()
CategoryName(new_cat) == Strip(new_cat)

\* The "Add category" button with the radio at cat_type and the text new_cat
AddCategory(cat_type, new_cat) ==
    /\ UNCHANGED df
    /\ IF new_cat # <<>> /\ Strip(new_cat) # <<>>
       THEN LET name == CategoryName(new_cat)
                target == IF cat_type = "Expense"
                          THEN expense_categories
                          ELSE income_categories
            IN  IF ~InList(name, target)
                THEN /\ expense_categories' =
                            IF cat_type = "Expense"
                            THEN Append(target, name)
                            ELSE expense_categories
                     /\ income_categories' =
                            IF cat_type = "Expense"
                            THEN income_categories
                            ELSE Append(target, name)
                     /\ msg' = Success("Added to categories.")
                ELSE /\ msg' = Warning("That category already exists.")
                     /\ UNCHANGED <<expense_categories, income_categories>>
       ELSE /\ msg' = NoMsg
            /\ UNCHANGED <<expense_categories, income_categories>>

-----------------------------------------------------------------------------
(* Add a transaction *)

Abs(x) == IF x < 0 THEN -x ELSE x

\* amount = trans_amount if trans_type == "Income" else -abs(trans_amount)
SignedAmount(trans_type, trans_amount) ==
    IF trans_type = "Income" THEN trans_amount ELSE -Abs(trans_amount)

\* The options of the Category selectbox of the add form
CategoryOptions(trans_type) ==
    IF trans_type = "Expense" THEN expense_categories ELSE income_categories

\* The new row put after the rows of the table
WithNewRowLast(df_new, current) == concat_ignore_index(current, df_new)

\* pd.concat([df_new, st.session_state.df], axis=0, ignore_index=True)
WithNewRow(df_new, current) == concat_ignore_index(df_new, current)

\* The submitted add form
AddTransaction(trans_type, trans_category, trans_date, trans_description, trans_amount) ==
    /\ msg' = Success("Transaction added.")
    /\ Len(df) < MaxRows
    /\ InList(trans_category, CategoryOptions(trans_type))
    /\ trans_amount >= 0
    /\ LET df_new ==
               << [index |-> 0,
                   Date |-> trans_date,
                   Category |-> trans_category,
                   Description |-> IF trans_description = <<>>
                                   THEN <<"-">>
                                   ELSE trans_description,
                   Amount |-> SignedAmount(trans_type, trans_amount),
                   Type |-> trans_type] >>
       IN  df' = WithNewRow(df_new, df)
    /\ UNCHANGED <<expense_categories, income_categories>>

-----------------------------------------------------------------------------
(* Transactions table: the editable grid *)

\* The edit that also puts the edited row's category on the list of its type
DataEditorRegistering(i, column, value) ==
    /\ i \in 1..Len(df)
    /\ msg' = NoMsg
    /\ column \in {"Date", "Category", "Description", "Amount", "Type"}
    /\ column = "Category" => InList(value, all_categories)
    /\ column = "Type" => value \in {"Expense", "Income"}
    /\ LET edited_df == [df EXCEPT ![i] = [df[i] EXCEPT ![column] = value]]
           cat == edited_df[i].Category
           typ == edited_df[i].Type
       IN  /\ edited_df # df
           /\ df' = edited_df
           /\ expense_categories' =
                  IF typ = "Expense" /\ ~InList(cat, expense_categories)
                  THEN Append(expense_categories, cat)
                  ELSE expense_categories
           /\ income_categories' =
                  IF typ = "Income" /\ ~InList(cat, income_categories)
                  THEN Append(income_categories, cat)
                  ELSE income_categories

\* One cell edit in st.data_editor; the edited frame is stored back
DataEditor(i, column, value) ==
    /\ i \in 1..Len(df)
    /\ msg' = NoMsg
    /\ column \in {"Date", "Category", "Description", "Amount", "Type"}
    /\ column = "Category" => InList(value, all_categories)
    /\ column = "Type" => value \in {"Expense", "Income"}
    /\ LET edited_df == [df EXCEPT ![i] = [df[i] EXCEPT ![column] = value]]
       IN  /\ edited_df # df
           /\ df' = edited_df
    /\ UNCHANGED <<expense_categories, income_categories>>

-----------------------------------------------------------------------------
(* Delete a transaction *)

\* The drop taking the 0-based position for a 1-based one
DeleteRowOffByOne(d, delete_index) ==
    reset_index(drop(d, d[IF delete_index + 2 <= Len(d)
                          THEN delete_index + 2
                          ELSE delete_index + 1].index))

\* df.drop(df.index[delete_index]).reset_index(drop=True), on the re-indexed frame
DeleteRow(d, delete_index) ==
    reset_index(drop(d, d[delete_index + 1].index))

\* The delete that also drops the added categories no remaining row uses
DeleteTransactionPruning(delete_index) ==
    LET d == reset_index(df)
        left == DeleteRow(d, delete_index)
        used(c) == \E i \in 1..Len(left) : left[i].Category = c
    IN  /\ msg' = Success("Transaction deleted.")
        /\ Len(d) > 0
        /\ delete_index \in 0..(Len(d) - 1)
        /\ df' = left
        /\ expense_categories' =
               SelectSeq(expense_categories,
                         LAMBDA c : InList(c, DEFAULT_EXPENSE_CATEGORIES) \/ used(c))
        /\ income_categories' =
               SelectSeq(income_categories,
                         LAMBDA c : InList(c, DEFAULT_INCOME_CATEGORIES) \/ used(c))

\* The delete taking a position past the end for the last row
DeleteTransactionClamped(delete_index) ==
    LET d == reset_index(df)
        last == Len(d) - 1
    IN  /\ msg' = Success("Transaction deleted.")
        /\ Len(d) > 0
        /\ df' = DeleteRow(d, IF delete_index > last THEN last ELSE delete_index)
        /\ UNCHANGED <<expense_categories, income_categories>>

\* The "Delete" button with the selectbox at delete_index
DeleteTransaction(delete_index) ==
    LET d == reset_index(df)
    IN  /\ msg' = Success("Transaction deleted.")
        /\ Len(d) > 0
        /\ delete_index \in 0..(Len(d) - 1)
        /\ df' = DeleteRow(d, delete_index)
        /\ UNCHANGED <<expense_categories, income_categories>>

-----------------------------------------------------------------------------
(* Statistics *)

RECURSIVE Sum(_)
\* Series.sum()
Sum(s) == IF s = <<>> THEN 0 ELSE Head(s) + Sum(Tail(s))

\* df[df["Type"] == t]["Amount"]
AmountsOfType(d, t) ==
    LET sel == SelectSeq(d, LAMBDA r : r.Type = t)
    IN  [i \in 1..Len(sel) |-> sel[i].Amount]

total_income == Sum(AmountsOfType(df, "Income"))
\* The expenses summed as magnitudes, row by row
total_expense_of_magnitudes ==
    LET amounts == AmountsOfType(df, "Expense")
    IN  Sum(List([i \in 1..Len(amounts) |-> Abs(amounts[i])]))

total_expense == Abs(Sum(AmountsOfType(df, "Expense")))
balance == total_income - total_expense

\* The Expense rows with their amounts made absolute
expenses ==
    LET sel == SelectSeq(df, LAMBDA r : r.Type = "Expense")
    IN  [i \in 1..Len(sel) |-> [sel[i] EXCEPT !.Amount = Abs(sel[i].Amount)]]

\* expenses.groupby("Category")["Amount"].sum(), drawn only when expenses is not empty
by_cat ==
    LET cats == {expenses[i].Category : i \in 1..Len(expenses)}
    IN  [c \in cats |->
            LET sel == SelectSeq(expenses, LAMBDA r : r.Category = c)
            IN  Sum([i \in 1..Len(sel) |-> sel[i].Amount])]

-----------------------------------------------------------------------------
(* Import CSV *)

\* The texts pd.read_csv reads as a missing value; astype(str) then gives "nan"
STR_NA_VALUES ==
    { <<>>, <<"N", "A">>, <<"n", "a", "n">>, <<"N", "a", "N">>,
      <<"n", "u", "l", "l">>, <<"N", "o", "n", "e">> }

\* read_csv followed by Series.astype(str) on a text cell
AsStr(cell) == IF cell \in STR_NA_VALUES THEN <<"n", "a", "n">> ELSE cell

\* required = {"date": "Date", "category": "Category", ...}, in dict order
required ==
    << [lower |-> <<"d", "a", "t", "e">>,
        name  |-> <<"D", "a", "t", "e">>, field |-> "Date"],
       [lower |-> <<"c", "a", "t", "e", "g", "o", "r", "y">>,
        name  |-> <<"C", "a", "t", "e", "g", "o", "r", "y">>, field |-> "Category"],
       [lower |-> <<"d", "e", "s", "c", "r", "i", "p", "t", "i", "o", "n">>,
        name  |-> <<"D", "e", "s", "c", "r", "i", "p", "t", "i", "o", "n">>,
        field |-> "Description"],
       [lower |-> <<"a", "m", "o", "u", "n", "t">>,
        name  |-> <<"A", "m", "o", "u", "n", "t">>, field |-> "Amount"],
       [lower |-> <<"t", "y", "p", "e">>,
        name  |-> <<"T", "y", "p", "e">>, field |-> "Type"] >>

\* The keys of col_map by column: c.strip().lower()
ColumnKeys(columns) == List([j \in 1..Len(columns) |-> Lower(Strip(columns[j]))])

Max(S) == CHOOSE x \in S : \A y \in S : y <= x

\* col_map as a function of the required entries: the position of the column
\* with the entry's key (in the dict comprehension the last one wins), 0 if none
col_map(columns) ==
    LET keys == ColumnKeys(columns)
    IN  List([k \in 1..Len(required) |->
            LET at == {j \in 1..Len(columns) : keys[j] = required[k].lower}
            IN  IF at = {} THEN 0 ELSE Max(at)])

\* The column names after df_loaded.rename(columns=rename)
RenamedColumns(columns, colmap) ==
    List([j \in 1..Len(columns) |->
        IF \E k \in 1..Len(required) : colmap[k] = j
        THEN required[CHOOSE k \in 1..Len(required) : colmap[k] = j].name
        ELSE columns[j]])

\* The positions that [list(required.values())] selects, by required entry
Selected(columns, colmap) ==
    LET names == RenamedColumns(columns, colmap)
    IN  List([k \in 1..Len(required) |->
            {j \in 1..Len(columns) : names[j] = required[k].name}])

\* Dates read with errors="coerce": no cell raises
DatesParseCoerce(cells) == TRUE

\* pd.to_datetime(out["Date"]) raises when a cell is no date
DatesParse(cells) == \A i \in 1..Len(cells) : cells[i].ok

\* pd.to_numeric(..., errors="coerce").fillna(0) on one cell
ToNumeric(cell) == IF cell.ok THEN cell.v ELSE 0

\* The Type with only the exact word taken for Income
NormalTypeExact(cell) ==
    IF Lower(Strip(AsStr(cell))) = <<"i", "n", "c", "o", "m", "e">>
    THEN "Income"
    ELSE "Expense"

\* The Type of a row from its cell: lines 86-87
NormalType(cell) ==
    LET t == Lower(Strip(AsStr(cell)))
    IN  IF StartsWithI(t) \/ t = <<"i", "n", "c", "o", "m", "e">>
        THEN "Income"
        ELSE "Expense"

\* The loop of lines 88-92 on one row
NormalAmount(type, amount) ==
    IF type = "Expense" /\ amount > 0 THEN -amount
    ELSE IF type = "Income" /\ amount < 0 THEN Abs(amount)
    ELSE amount

\* _normalize_csv(df_loaded): "err" is the returned error, "raise" an exception
normalize_csv(df_loaded) ==
    LET columns == df_loaded.columns
        colmap == col_map(columns)
        sel == Selected(columns, colmap)
        col == List([k \in 1..Len(required) |-> CHOOSE j \in sel[k] : TRUE])
        dates == List([i \in 1..Len(df_loaded.rows) |-> df_loaded.rows[i][col[1]]])
    IN  IF Cardinality({k \in 1..Len(required) : colmap[k] # 0}) < 5
        THEN [status |-> "err", out |-> <<>>]
        ELSE IF \E k \in 1..Len(required) : Cardinality(sel[k]) # 1
        THEN [status |-> "raise", out |-> <<>>]
        ELSE IF ~DatesParse(dates)
        THEN [status |-> "raise", out |-> <<>>]
        ELSE [status |-> "ok",
              out |-> List([i \in 1..Len(df_loaded.rows) |->
                  LET row == df_loaded.rows[i]
                      type == NormalType(row[col[5]])
                  IN  [index |-> i - 1,
                       Date |-> row[col[1]].v,
                       Category |-> Strip(AsStr(row[col[2]])),
                       Description |-> AsStr(row[col[3]]),
                       Amount |-> NormalAmount(type, ToNumeric(row[col[4]])),
                       Type |-> type]])]

-----------------------------------------------------------------------------
(* The inputs of a session *)

Groceries == <<"G", "r", "o", "c", "e", "r", "i", "e", "s">>
Salary == <<"S", "a", "l", "a", "r", "y">>

Types == {"Expense", "Income"}

\* Texts typed into "New category name"
NewCategoryTexts == { <<" ", "S", "a", "l", "a", "r", "y", " ">>, <<" ", "\t">>, <<>> }

\* Categories picked in the add form and in the grid, when their list offers them
PickedCategories == {Groceries, Salary, <<>>}

\* Dates, descriptions and amounts entered in the add form
FormDates == {1}
FormDescriptions == { <<>>, <<"-">> }
FormAmounts == {0, 1}

\* Values a grid cell is set to
GridValues(column) ==
    CASE column = "Date" -> FormDates
      [] column = "Category" -> PickedCategories
      [] column = "Description" -> { <<"-">> }
      [] column = "Amount" -> {-1, 0, 1}
      [] column = "Type" -> Types

\* A cell of a date or amount column: ok tells whether its text parses
Cell(ok, v) == [ok |-> ok, v |-> v]

\* A CSV line by the meaning of its cells; `notes` fills a column the app ignores
Line(date, category, amount, type) ==
    [date |-> date, category |-> category, description |-> <<"-">>,
     amount |-> amount, type |-> type, notes |-> <<"x">>]

\* Lines that parse: a padded category new to Expense with a positive amount,
\* a whitespace-only category typed " Inc" with a negative amount, and a known
\* category with an unparsable amount and an empty type
GoodLines ==
    { Line(Cell(TRUE, 1), <<" ", "S", "a", "l", "a", "r", "y", " ">>, Cell(TRUE, 1),
           <<"e", "x", "p", "e", "n", "s", "e">>),
      Line(Cell(TRUE, 1), <<" ", " ">>, Cell(TRUE, -1), <<" ", "I", "n", "c">>),
      Line(Cell(TRUE, 1), Groceries, Cell(FALSE, 0), <<>>) }

\* A line whose date does not parse
BadDateLine ==
    Line(Cell(FALSE, 0), Groceries, Cell(TRUE, 1), <<"I", "n", "c", "o", "m", "e">>)

Column(name, holds) == [name |-> name, holds |-> holds]

\* Header lines: each column's name and which cell of a line it holds
StandardHeader ==
    << Column(<<"D", "a", "t", "e">>, "date"),
       Column(<<"C", "a", "t", "e", "g", "o", "r", "y">>, "category"),
       Column(<<"D", "e", "s", "c", "r", "i", "p", "t", "i", "o", "n">>, "description"),
       Column(<<"A", "m", "o", "u", "n", "t">>, "amount"),
       Column(<<"T", "y", "p", "e">>, "type") >>

MixedHeader ==
    << Column(<<" ", "T", "y", "p", "e", " ">>, "type"),
       Column(<<"A", "M", "O", "U", "N", "T">>, "amount"),
       Column(<<"N", "o", "t", "e", "s">>, "notes"),
       Column(<<"c", "a", "t", "e", "g", "o", "r", "y", " ">>, "category"),
       Column(<<"D", "e", "s", "c", "r", "i", "p", "t", "i", "o", "n">>, "description"),
       Column(<<" ", "D", "A", "T", "E">>, "date") >>

NoTypeHeader == SubSeq(StandardHeader, 1, 4)

TwoDatesHeader == Append(StandardHeader, Column(<<"d", "a", "t", "e">>, "date"))

\* The table pd.read_csv returns for a header and lines
CsvFile(header, lines) ==
    [columns |-> List([j \in 1..Len(header) |-> header[j].name]),
     rows |-> List([i \in 1..Len(lines) |->
                  List([j \in 1..Len(header) |-> lines[i][header[j].holds]])])]

LinesUpTo(n) == UNION {[1..k -> GoodLines] : k \in 0..n}

RECURSIVE SetToSeq(_)
SetToSeq(S) ==
    IF S = {} THEN <<>>
    ELSE LET x == CHOOSE x \in S : TRUE IN <<x>> \o SetToSeq(S \ {x})

\* A file by what it was written from: its header and its lines
Source(header, lines) == [header |-> header, lines |-> lines]

\* Files that load: the standard header with up to MaxRows lines, the mixed
\* header with at most one
LoadableSources ==
    {Source(StandardHeader, ls) : ls \in LinesUpTo(MaxRows)}
    \cup {Source(MixedHeader, ls) : ls \in LinesUpTo(1)}

\* Files that do not: a column missing, two columns for Date, a date that does
\* not parse after at most one line that does
FailingSources ==
    {Source(h, ls) : h \in {NoTypeHeader, TwoDatesHeader}, ls \in LinesUpTo(1)}
    \cup {Source(h, Append(ls, BadDateLine)) :
              h \in {StandardHeader, MixedHeader}, ls \in LinesUpTo(1)}

\* The files uploaded in a session
SessionSources == LoadableSources \cup FailingSources

\* Texts of a Type cell and cells of an Amount column, for the normalization
TypeTexts ==
    { <<"i", "n", "c", "o", "m", "e">>, <<" ", "I">>, <<"I", "N", "C", " ">>,
      <<"i">>, <<"e", "x", "p", "e", "n", "s", "e">>, <<"E", "x", "p">>,
      <<" ", "x", " ", "i">>, <<>> }

AmountCells == {Cell(TRUE, 2), Cell(TRUE, -1), Cell(TRUE, 0), Cell(FALSE, 0)}

\* One-line files over every type text and amount cell
NormalizationSources ==
    {Source(h, <<Line(Cell(TRUE, 1), c, a, t)>>) :
        h \in {StandardHeader}, c \in {Groceries, <<" ", "G", "y", "m">>},
        a \in AmountCells, t \in TypeTexts}

\* The session's files, then the files of the normalization
Sources ==
    SetToSeq(SessionSources) \o SetToSeq(NormalizationSources \ SessionSources)

Uploads == List([k \in 1..Len(Sources) |-> CsvFile(Sources[k].header, Sources[k].lines)])

\* The places in Uploads of the session's files
SessionUploads == 1..Cardinality(SessionSources)

\* The places in Uploads of the files of the normalization
NormalizationUploads ==
    {k \in 1..Len(Sources) : Sources[k] \in NormalizationSources}

\* The options of the "Import mode" radio
Modes == {"Replace all", "Append to current"}

RECURSIVE RegisterCategoriesUnchecked(_, _, _)
\* The loop without its "not in" tests
RegisterCategoriesUnchecked(rows, exp, inc) ==
    IF rows = <<>> THEN [exp |-> exp, inc |-> inc]
    ELSE LET cat == Head(rows).Category
             typ == Head(rows).Type
         IN  IF typ = "Expense"
             THEN RegisterCategoriesUnchecked(Tail(rows), Append(exp, cat), inc)
             ELSE RegisterCategoriesUnchecked(Tail(rows), exp, Append(inc, cat))

RECURSIVE RegisterCategories(_, _, _)
\* Lines 125-130: the rows' categories join the list of their type
RegisterCategories(rows, exp, inc) ==
    IF rows = <<>> THEN [exp |-> exp, inc |-> inc]
    ELSE LET cat == Head(rows).Category
             typ == Head(rows).Type
         IN  IF typ = "Expense" /\ ~InList(cat, exp)
             THEN RegisterCategories(Tail(rows), Append(exp, cat), inc)
             ELSE IF typ = "Income" /\ ~InList(cat, inc)
             THEN RegisterCategories(Tail(rows), exp, Append(inc, cat))
             ELSE RegisterCategories(Tail(rows), exp, inc)

\* The merge with the imported rows put first, as the add form does
MergedPrepend(mode, current, df_import) ==
    IF mode = "Replace all"
    THEN reset_index(df_import)
    ELSE concat_ignore_index(df_import, current)

\* Lines 120-123: the table after "Load CSV"
Merged(mode, current, df_import) ==
    IF mode = "Replace all"
    THEN reset_index(df_import)
    ELSE concat_ignore_index(current, df_import)

\* raw = pd.read_csv(uploaded); df_import, err = _normalize_csv(raw), for the
\* k-th file of Uploads
Parsed == List([k \in 1..Len(Uploads) |-> normalize_csv(Uploads[k])])

\* Lines 115-132 for res, the outcome of reading and normalizing the file
LoadCSV(res, mode) ==
    LET reg == RegisterCategories(res.out, expense_categories, income_categories)
    IN  IF res.status = "raise"
        THEN /\ msg' = Error("Could not read CSV")
             /\ UNCHANGED <<df, expense_categories, income_categories>>
        ELSE IF res.status = "err"
        THEN /\ msg' = Error("CSV must have columns")
             /\ UNCHANGED <<df, expense_categories, income_categories>>
        ELSE /\ msg' = Success("Loaded transaction(s).")
             /\ Len(res.out) + (IF mode = "Replace all" THEN 0 ELSE Len(df)) <= MaxRows
             /\ df' = Merged(mode, df, res.out)
             /\ expense_categories' = reg.exp
             /\ income_categories' = reg.inc

\* The k-th file in the uploader, the import mode and the "Load CSV" button
ImportCSV(k, mode) == LoadCSV(Parsed[k], mode)

-----------------------------------------------------------------------------
(* Export CSV *)

\* The text to_csv writes for a Type value
TypeText(type) ==
    IF type = "Income"
    THEN <<"I", "n", "c", "o", "m", "e">>
    ELSE <<"E", "x", "p", "e", "n", "s", "e">>

\* st.session_state.df.to_csv(index=False): the five columns in the frame's
\* order, one line per row; dates and amounts are written in a form that parses
\* back, texts as they are
to_csv(d) ==
    Source(StandardHeader,
           List([i \in 1..Len(d) |->
               [date |-> Cell(TRUE, d[i].Date),
                category |-> d[i].Category,
                description |-> d[i].Description,
                amount |-> Cell(TRUE, d[i].Amount),
                type |-> TypeText(d[i].Type)]]))

\* raw = pd.read_csv(uploaded); _normalize_csv(raw), for the file the
\* "Download as CSV" button gave for the table d
Reimported(d) ==
    LET file == to_csv(d)
    IN  normalize_csv(CsvFile(file.header, file.lines))

\* "Download as CSV", offered when the table has rows, and the download put
\* into the uploader and loaded
ReimportExport(mode) ==
    /\ Len(df) > 0
    /\ LoadCSV(Reimported(df), mode)

-----------------------------------------------------------------------------
(* The session: any interaction, one per script run *)

Next ==
    \/ \E cat_type \in Types, new_cat \in NewCategoryTexts :
           AddCategory(cat_type, new_cat)
    \/ \E k \in SessionUploads, mode \in Modes : ImportCSV(k, mode)
    \/ \E trans_type \in Types, trans_category \in PickedCategories,
          trans_date \in FormDates, trans_description \in FormDescriptions,
          trans_amount \in FormAmounts :
           AddTransaction(trans_type, trans_category, trans_date,
                          trans_description, trans_amount)
    \/ \E i \in 1..MaxRows,
          column \in {"Date", "Category", "Description", "Amount", "Type"} :
           \E value \in GridValues(column) : DataEditor(i, column, value)
    \/ \E delete_index \in 0..(MaxRows - 1) : DeleteTransaction(delete_index)

Spec == Init /\ [][Next]_vars

\* The session without grid edits: the rows are those the add form and the
\* files give
ImportNext ==
    \/ \E cat_type \in Types, new_cat \in NewCategoryTexts :
           AddCategory(cat_type, new_cat)
    \/ \E k \in SessionUploads, mode \in Modes : ImportCSV(k, mode)
    \/ \E trans_type \in Types, trans_category \in PickedCategories,
          trans_date \in FormDates, trans_description \in FormDescriptions,
          trans_amount \in FormAmounts :
           AddTransaction(trans_type, trans_category, trans_date,
                          trans_description, trans_amount)
    \/ \E delete_index \in 0..(MaxRows - 1) : DeleteTransaction(delete_index)

ImportSpec == Init /\ [][ImportNext]_vars

\* Descriptions typed into the add form of a session that exports
ExportDescriptions == FormDescriptions \cup { <<"N", "A">> }

\* The session of add form, category adds, deletes and exports loaded back
ExportNext ==
    \/ \E cat_type \in Types, new_cat \in NewCategoryTexts :
           AddCategory(cat_type, new_cat)
    \/ \E trans_type \in Types, trans_category \in PickedCategories,
          trans_date \in FormDates, trans_description \in ExportDescriptions,
          trans_amount \in FormAmounts :
           AddTransaction(trans_type, trans_category, trans_date,
                          trans_description, trans_amount)
    \/ \E delete_index \in 0..(MaxRows - 1) : DeleteTransaction(delete_index)
    \/ \E mode \in Modes : ReimportExport(mode)

ExportSpec == Init /\ [][ExportNext]_vars

\* Imports only, of the files of the normalization
NormalizeNext ==
    \E k \in NormalizationUploads, mode \in Modes : ImportCSV(k, mode)

NormalizeSpec == Init /\ [][NormalizeNext]_vars

-----------------------------------------------------------------------------
(* Properties *)

KindList(type) == IF type = "Expense" THEN expense_categories ELSE income_categories

\* C1: every transaction of the ledger has a negative amount exactly when its
\* kind is Expense (a zero amount counts as Income), after any sequence of
\* add, edit, delete and import.
SignMatchesKind ==
    \A i \in 1..Len(df) : (df[i].Amount < 0) = (df[i].Type = "Expense")

\* C2: every transaction's category is in the registry list of the
\* transaction's kind.
CategoryRegisteredForKind ==
    \A i \in 1..Len(df) : InList(df[i].Category, KindList(df[i].Type))

\* C3: deleting position k of an n-row ledger leaves n-1 rows: the rows before k
\* and the rows after k, in their order.
DeleteRemovesPositionK ==
    [][\A k \in 0..(MaxRows - 1) :
          DeleteTransaction(k) =>
              /\ Len(df') = Len(df) - 1
              /\ \A i \in 1..Len(df') :
                     Data(df'[i]) = Data(df[IF i <= k THEN i ELSE i + 1])]_vars

\* A row was deleted from a full ledger.
DeletedFromFullLedger ==
    /\ msg = Success("Transaction deleted.")
    /\ Len(df) = MaxRows - 1

\* The text without its leading and trailing whitespace: what lies between the
\* first and the last character that is no whitespace
Trimmed(s) ==
    LET solid == {i \in 1..Len(s) : s[i] \notin Whitespace}
    IN  IF solid = {} THEN <<>>
        ELSE SubSeq(s, CHOOSE i \in solid : \A j \in solid : i <= j,
                       CHOOSE i \in solid : \A j \in solid : j <= i)

\* C4: category add trims the name; a blank name or one already in the chosen
\* kind's list changes neither list (the duplicate is reported); any other name
\* is appended to the chosen kind's list and the other list is unchanged.
AddCategoryTrimsAndRejects ==
    [][\A cat_type \in Types, new_cat \in NewCategoryTexts :
          AddCategory(cat_type, new_cat) =>
              LET name == Trimmed(new_cat)
                  known == InList(name, KindList(cat_type))
              IN  /\ (name = <<>> \/ known) =>
                         UNCHANGED <<expense_categories, income_categories>>
                  /\ (name # <<>> /\ known) =>
                         msg' = Warning("That category already exists.")
                  /\ (name # <<>> /\ ~known /\ cat_type = "Expense") =>
                         /\ expense_categories' = Append(expense_categories, name)
                         /\ UNCHANGED income_categories
                  /\ (name # <<>> /\ ~known /\ cat_type = "Income") =>
                         /\ income_categories' = Append(income_categories, name)
                         /\ UNCHANGED expense_categories]_vars

\* A padded name was added to the Expense list and then offered again.
DuplicateCategoryReported ==
    /\ msg = Warning("That category already exists.")
    /\ expense_categories = Append(DEFAULT_EXPENSE_CATEGORIES, Salary)

NoBlankNoDuplicate(list) ==
    /\ \A i \in 1..Len(list) : Trimmed(list[i]) # <<>>
    /\ \A i, j \in 1..Len(list) : list[i] = list[j] => i = j

\* C5: neither registry list holds a blank name or a name twice.
RegistryNamesValid ==
    /\ NoBlankNoDuplicate(expense_categories)
    /\ NoBlankNoDuplicate(income_categories)

\* The uploads that are failing files, by their place in Uploads
Failing == {k \in 1..Len(Uploads) : Sources[k] \in FailingSources}

\* C6: an import that fails (a required column missing, a date that does not
\* parse, any other error of reading) leaves the ledger and both registry lists
\* as they were.
FailedImportChangesNothing ==
    [][\A k \in SessionUploads, mode \in Modes :
          (ImportCSV(k, mode) /\ (k \in Failing \/ msg'.level = "error")) =>
              /\ msg'.level = "error"
              /\ UNCHANGED <<df, expense_categories, income_categories>>]_vars

\* An import failed on a ledger that holds rows and a registry that has grown.
ImportFailedOnFilledLedger ==
    /\ msg.level = "error"
    /\ Len(df) = MaxRows
    /\ Len(expense_categories) > Len(DEFAULT_EXPENSE_CATEGORIES)

\* C7: a successful import in Replace mode makes the ledger the imported rows in
\* file order; in Append mode the prior rows in their order followed by the
\* imported rows in file order.
ImportReplacesOrAppends ==
    [][\A k \in SessionUploads, mode \in Modes :
          (ImportCSV(k, mode) /\ msg'.level = "success") =>
              LET imported == Rows(Parsed[k].out)
              IN  /\ mode = "Replace all" => Rows(df') = imported
                  /\ mode = "Append to current" =>
                         /\ Len(df') = Len(df) + Len(imported)
                         /\ SubSeq(Rows(df'), 1, Len(df)) = Rows(df)
                         /\ SubSeq(Rows(df'), Len(df) + 1, Len(df')) = imported]_vars

\* Rows were appended to a ledger: the first row is one no file holds, the
\* second is the blank-category row of a file.
ImportedAfterExistingRow ==
    /\ msg = Success("Loaded transaction(s).")
    /\ Len(df) = 2
    /\ df[1].Category = Salary /\ df[1].Type = "Income"
    /\ df[2].Category = <<>>

IsPrefix(a, b) == Len(a) <= Len(b) /\ SubSeq(b, 1, Len(a)) = a

\* The names a list gained
Gained(old, new) == {new[i] : i \in (Len(old) + 1)..Len(new)}

\* C8: after a successful import every imported row's category is in the list
\* of the row's kind; a name already there is not added again, and a list gains
\* only categories of imported rows of its kind.
ImportRegistersCategories ==
    [][\A k \in SessionUploads, mode \in Modes :
          (ImportCSV(k, mode) /\ msg'.level = "success") =>
              LET imported == Parsed[k].out
                  of(type) == {imported[i].Category :
                                  i \in {j \in 1..Len(imported) : imported[j].Type = type}}
              IN  /\ \A c \in of("Expense") : InList(c, expense_categories')
                  /\ \A c \in of("Income") : InList(c, income_categories')
                  /\ IsPrefix(expense_categories, expense_categories')
                  /\ IsPrefix(income_categories, income_categories')
                  /\ Len(expense_categories') =
                         Len(expense_categories)
                         + Cardinality(Gained(expense_categories, expense_categories'))
                  /\ Len(income_categories') =
                         Len(income_categories)
                         + Cardinality(Gained(income_categories, income_categories'))
                  /\ \A c \in Gained(expense_categories, expense_categories') :
                         c \in of("Expense") /\ ~InList(c, expense_categories)
                  /\ \A c \in Gained(income_categories, income_categories') :
                         c \in of("Income") /\ ~InList(c, income_categories)]_vars

\* An import registered the trimmed name of its Expense row; the Income list,
\* whose names the file did not use, is as it was.
ImportGrewExpenseList ==
    /\ msg = Success("Loaded transaction(s).")
    /\ expense_categories = Append(DEFAULT_EXPENSE_CATEGORIES, Salary)
    /\ income_categories = DEFAULT_INCOME_CATEGORIES
    /\ Len(df) = MaxRows

\* The type text, trimmed and lower-cased, starts with "i": its first character
\* that is no whitespace is an i of either case
StartsWithLetterI(text) ==
    \E p \in 1..Len(text) :
        /\ text[p] \in {"i", "I"}
        /\ \A q \in 1..(p - 1) : text[q] \in Whitespace

\* C9: every row parsed by the import has kind Income exactly when its type
\* text, trimmed and lower-cased, starts with "i", and Expense otherwise; an
\* amount that does not parse is 0; the amount is -|a| for an Expense row with
\* a > 0, |a| for an Income row with a < 0, and a otherwise.
ImportNormalizesTypeAndAmount ==
    [][\A k \in NormalizationUploads, mode \in Modes :
          (ImportCSV(k, mode) /\ msg'.level = "success") =>
              LET lines == Sources[k].lines
                  first == Len(df') - Len(lines)
              IN  \A i \in 1..Len(lines) :
                      LET a == IF lines[i].amount.ok THEN lines[i].amount.v ELSE 0
                          income == StartsWithLetterI(lines[i].type)
                          row == df'[first + i]
                      IN  /\ row.Type = (IF income THEN "Income" ELSE "Expense")
                          /\ (~income /\ a > 0) => row.Amount = -Abs(a)
                          /\ (income /\ a < 0) => row.Amount = Abs(a)
                          /\ ~((~income /\ a > 0) \/ (income /\ a < 0)) =>
                                 row.Amount = a]_vars

\* A line with amount 2 and an Expense type was imported: its row holds -2.
ExpenseAmountNegated ==
    /\ msg = Success("Loaded transaction(s).")
    /\ \E i \in 1..Len(df) : df[i].Amount = -2 /\ df[i].Type = "Expense"

RECURSIVE SumAt(_)
\* The sum of the amounts of the rows at the positions in S
SumAt(S) ==
    IF S = {} THEN 0
    ELSE LET i == CHOOSE i \in S : TRUE IN df[i].Amount + SumAt(S \ {i})

\* C10: total_income is the sum of the Income rows' amounts, total_expense the
\* absolute value of the sum of the Expense rows' amounts, balance their
\* difference; on an empty ledger all three are 0 and no category has a total.
StatisticsAreSums ==
    LET incomes == {i \in 1..Len(df) : df[i].Type = "Income"}
        spent == {i \in 1..Len(df) : df[i].Type = "Expense"}
    IN  /\ total_income = SumAt(incomes)
        /\ total_expense = Abs(SumAt(spent))
        /\ balance = SumAt(incomes) - Abs(SumAt(spent))
        /\ df = <<>> =>
               /\ total_income = 0 /\ total_expense = 0 /\ balance = 0
               /\ DOMAIN by_cat = {}

\* A ledger with an income and an expense, neither of them zero.
LedgerWithIncomeAndExpense ==
    /\ total_income > 0
    /\ total_expense > 0
    /\ Len(df) = MaxRows

Columns == {"Date", "Category", "Description", "Amount", "Type"}

\* A step by the handler that ran it: the message it showed and its action
AddStep ==
    /\ msg' = Success("Transaction added.")
    /\ \E trans_type \in Types, trans_category \in PickedCategories,
          trans_date \in FormDates, trans_description \in FormDescriptions,
          trans_amount \in FormAmounts :
           AddTransaction(trans_type, trans_category, trans_date,
                          trans_description, trans_amount)

EditStep ==
    /\ msg' = NoMsg
    /\ \E i \in 1..MaxRows, column \in Columns :
           \E value \in GridValues(column) : DataEditor(i, column, value)

DeleteStep ==
    /\ msg' = Success("Transaction deleted.")
    /\ \E k \in 0..(MaxRows - 1) : DeleteTransaction(k)

CategoryStep ==
    /\ msg' \in {Success("Added to categories."),
                 Warning("That category already exists."), NoMsg}
    /\ \E cat_type \in Types, new_cat \in NewCategoryTexts :
           AddCategory(cat_type, new_cat)

LoadedStep ==
    /\ msg' = Success("Loaded transaction(s).")
    /\ \E k \in SessionUploads, mode \in Modes :
           Parsed[k].status = "ok" /\ ImportCSV(k, mode)

\* C11: an edit whose updated row has a blank category or a kind outside
\* {Expense, Income} is rejected with the ledger unchanged; a successful edit
\* replaces only the record at the edited position, leaving the ledger length,
\* the order of rows and every other row unchanged.
EditValidatesAndReplacesInPlace ==
    [][\A i \in 1..MaxRows, column \in Columns :
          \A value \in GridValues(column) :
              DataEditor(i, column, value) =>
                  LET updated == [df[i] EXCEPT ![column] = value]
                  IN  IF Trimmed(updated.Category) = <<>> \/ updated.Type \notin Types
                      THEN UNCHANGED df
                      ELSE /\ Len(df') = Len(df)
                           /\ df'[i] = updated
                           /\ \A j \in (1..Len(df)) \ {i} : df'[j] = df[j]]_vars

\* C12: adding a transaction always succeeds and puts the new record at
\* position 0: the ledger has one row more, the new record first, and the prior
\* records after it in their order.
AddPutsNewRecordFirst ==
    [][AddStep =>
          \A trans_type \in Types, trans_category \in PickedCategories,
             trans_date \in FormDates, trans_description \in FormDescriptions,
             trans_amount \in FormAmounts :
              AddTransaction(trans_type, trans_category, trans_date,
                             trans_description, trans_amount) =>
              /\ msg' = Success("Transaction added.")
              /\ Len(df') = Len(df) + 1
              /\ df'[1].Date = trans_date
              /\ df'[1].Category = trans_category
              /\ df'[1].Type = trans_type
              /\ df'[1].Amount =
                     (IF trans_type = "Expense" THEN 0 - trans_amount ELSE trans_amount)
              /\ df'[1].Description \in {trans_description, <<"-">>}
              /\ df'[1].Description # <<>>
              /\ \A i \in 1..Len(df) : Data(df'[i + 1]) = Data(df[i])]_vars

\* An expense was added in front of an income.
AddedInFrontOfOlderRow ==
    /\ msg = Success("Transaction added.")
    /\ Len(df) = MaxRows
    /\ df[1].Type = "Expense" /\ df[1].Amount = -1
    /\ df[MaxRows].Type = "Income"

\* C13: a delete at a position at or past the ledger's length, and so any delete
\* on an empty ledger, cannot be performed: no step of it exists, and the ledger
\* stays as it is.
DeleteOutOfRangeNotPerformable ==
    \A k \in Len(df)..MaxRows : ~ENABLED DeleteTransaction(k)

\* The last row was deleted: the ledger is empty and offers no position.
LedgerEmptiedByDelete ==
    /\ msg = Success("Transaction deleted.")
    /\ df = <<>>

\* C14: the registry lists only grow: in every step each list is a prefix of
\* the list after the step, so a name once in a list stays in it, at its
\* place, also when no transaction uses it or its transactions are deleted.
RegistryOnlyGrows ==
    [][/\ IsPrefix(expense_categories, expense_categories')
       /\ IsPrefix(income_categories, income_categories')]_vars

\* The ledger was emptied by a delete while both lists hold names they did not
\* start with.
AddedCategoriesOutliveRows ==
    /\ msg = Success("Transaction deleted.")
    /\ df = <<>>
    /\ Len(expense_categories) > Len(DEFAULT_EXPENSE_CATEGORIES)
    /\ Len(income_categories) > Len(DEFAULT_INCOME_CATEGORIES)

\* The rows of a table as a multiset: how many times each row occurs
BagOfRows(d) ==
    LET rows == Rows(d)
    IN  [r \in {rows[i] : i \in 1..Len(rows)} |->
            Cardinality({i \in 1..Len(rows) : rows[i] = r})]

\* C15: for every reachable ledger without zero-amount rows, exporting it to
\* CSV and importing the export gives the same multiset of transactions: the
\* same date, category, description, amount and kind per row.
RoundTripKeepsRows ==
    (df # <<>> /\ \A i \in 1..Len(df) : df[i].Amount # 0) =>
        /\ Reimported(df).status = "ok"
        /\ BagOfRows(Reimported(df).out) = BagOfRows(df)

RECURSIVE SumOfTotals(_, _)
\* The sum of the totals f gives for the categories in S
SumOfTotals(f, S) ==
    IF S = {} THEN 0
    ELSE LET c == CHOOSE c \in S : TRUE IN f[c] + SumOfTotals(f, S \ {c})

\* C16: in every reachable state the reported total_expense is the sum of the
\* per-category expense totals of the spending-by-category breakdown.
HeadlineMatchesBreakdown ==
    total_expense = SumOfTotals(by_cat, DOMAIN by_cat)

\* C17: ledger operations and registry operations are framed apart: add
\* transaction, grid edit and delete change neither registry list, category add
\* does not change the ledger, and a step that changes both the ledger and a
\* list is a successful CSV import.
LedgerAndRegistryFramedApart ==
    [][LET lists == <<expense_categories, income_categories>>
       IN  /\ lists' # lists => ~(AddStep \/ EditStep \/ DeleteStep)
           /\ CategoryStep => UNCHANGED df
           /\ (df' # df /\ lists' # lists) => LoadedStep]_vars

\* An import of one line put a row into the ledger and a name on the Income list.
ImportChangedLedgerAndRegistry ==
    /\ msg = Success("Loaded transaction(s).")
    /\ Len(df) = 1
    /\ Len(income_categories) > Len(DEFAULT_INCOME_CATEGORIES)
    /\ expense_categories = DEFAULT_EXPENSE_CATEGORIES

====
